---- MODULE Spec2Model ----
(***************************************************************************)
(* A model of the document handlers and the document manager of            *)
(* jupyter-js-docmanager: AbstractFileHandler / FileHandler                *)
(* (src/src/handler.ts, lines 1-408, the revision that compiles) and       *)
(* DocumentManager (src/unnamed/part_001).                                 *)
(*                                                                         *)
(* The program is single threaded.  A public method or an event listener   *)
(* runs to completion; what it chained to a promise with `then` runs       *)
(* later, as a job of the job queue, in the order in which the jobs were   *)
(* queued, after the calls and events of the running task.  The contents   *)
(* service answers the requests it was sent in any order.                  *)
(***************************************************************************)
EXTENDS Integers, Sequences, FiniteSets, TLC

(***************************************************************************)
(* Bounds of the model.                                                    *)
(***************************************************************************)
\* The number of widgets that createWidget may construct in one behaviour.
MaxWidgets == 2
\* The number of requests sent to the contents service in one behaviour.
MaxReqs == 3
\* The length of the log of requests: the number of requests sent in one
\* behaviour of RenameSpec.
MaxLog == 4
\* The number of register calls made on the document manager.
MaxRegistered == 2
\* The number of calls, events and answers in one behaviour; the jobs that
\* they queue are not counted.
MaxSteps == 5
\* The same, in the behaviours of one handler that renames (RenameSpec).
MaxRenameSteps == 7

(***************************************************************************)
(* Values.  A string of the program is a sequence of one-character         *)
(* strings, so that split, slice and lastIndexOf are computed as the code  *)
(* computes them.                                                          *)
(***************************************************************************)
Handlers == {"h1", "h2"}
NoHandler == "none"

Widgets == 1..MaxWidgets
\* null / undefined where a widget is expected
Null == 0

\* 'd/a.t' and 'd/b.m'
PathDA == <<"d", "/", "a", ".", "t">>
PathDB == <<"d", "/", "b", ".", "m">>
\* 'd/c.t', a path that only a rename leads to
PathDC == <<"d", "/", "c", ".", "t">>
Paths == {PathDA, PathDB, PathDC}
\* The paths handed to open by the callers of the model.
OpenPaths == {PathDA, PathDB}
\* The texts a user types into a tab title.
Titles == {<<"a", ".", "t">>, <<"b", ".", "m">>}
\* The same, with a third title for the behaviours of RenameSpec.
RenameTitles == Titles \cup {<<"c", ".", "t">>}

\* Document texts; EmptyDoc is the value of a fresh CodeMirror document.
EmptyDoc == ""
Texts == {"x", "y"}
\* The content field of a model that carries no content (a directory listing
\* entry, the answer to a rename).
NoContent == "null"
\* The contents service has no file at the path.
Absent == "absent"

NoModel == [path |-> <<>>, content |-> NoContent]
\* The models callers hand to open: only the path is read by the handler.
OpenModels == {[path |-> p, content |-> NoContent] : p \in OpenPaths}

(***************************************************************************)
(* String and array helpers of the JavaScript runtime.                     *)
(***************************************************************************)
\* The search of indexOf from the i-th element on: the 0-based index of the
\* first element equal to x, -1 if there is none.
RECURSIVE IndexFrom(_, _, _)
IndexFrom(s, x, i) ==
  IF i > Len(s) THEN -1 ELSE IF s[i] = x THEN i - 1 ELSE IndexFrom(s, x, i + 1)

\* Array.prototype.indexOf / String.prototype.indexOf: 0-based, -1 if absent.
IndexOf(s, x) == IndexFrom(s, x, 1)

\* String.prototype.lastIndexOf: 0-based, -1 if absent.
LastIndexOf(s, x) ==
  LET I == {i \in 1..Len(s) : s[i] = x}
  IN IF I = {} THEN -1 ELSE (CHOOSE i \in I : \A j \in I : j <= i) - 1

\* String.prototype.slice(from, to) with 0 <= from, to.
Slice(s, from, to) == SubSeq(s, from + 1, to)

\* Array.prototype.splice(index, 1): removes one element at a 0-based index;
\* a negative index counts from the end of the array.
Splice1(s, index) ==
  LET i == IF index < 0 THEN (IF Len(s) + index < 0 THEN 0 ELSE Len(s) + index)
           ELSE (IF index > Len(s) THEN Len(s) ELSE index)
  IN SubSeq(s, 1, i) \o SubSeq(s, i + 2, Len(s))

\* path.split('/').pop(): the text after the last slash.
Basename(path) == SubSeq(path, LastIndexOf(path, "/") + 2, Len(path))

\* The elements of a sequence.
Range(s) == {s[i] : i \in 1..Len(s)}

(***************************************************************************)
(* The class name added to the title of a dirty document.                  *)
(* title.className is modelled as the sequence of its class tokens.        *)
(***************************************************************************)
DIRTY_CLASS == "jp-mod-dirty"

\* A faulty variant of ReplaceDirty: the result of replace is not assigned.
ReplaceDirtyDropped(cn) == cn

\* className.replace(DIRTY_CLASS, ''): removes the first occurrence only.
ReplaceDirty(cn) ==
  IF IndexOf(cn, DIRTY_CLASS) = -1 THEN cn ELSE Splice1(cn, IndexOf(cn, DIRTY_CLASS))

\* The 'change' listener that setState attaches to the editor.
OnChange(cn) ==
  IF IndexOf(cn, DIRTY_CLASS) = -1 THEN Append(cn, DIRTY_CLASS) ELSE cn

\* n listeners run one after the other on one change event.
RECURSIVE FireChange(_, _)
FireChange(cn, n) == IF n = 0 THEN cn ELSE FireChange(OnChange(cn), n - 1)

IsDirty(cn) == IndexOf(cn, DIRTY_CLASS) # -1

(***************************************************************************)
(* The state.                                                              *)
(***************************************************************************)
VARIABLES
  widgets,        \* AbstractFileHandler._widgets, per handler
  activeWidget,   \* AbstractFileHandler._activeWidget, per handler
  modelProperty,  \* Private.modelProperty, per widget
  titleText,      \* widget.title.text
  className,      \* widget.title.className
  editor,         \* widget.editor.getDoc().getValue()
  listeners,      \* the number of 'change' listeners on the widget's editor
  disposed,       \* widget.isDisposed
  owner,          \* the handler whose createWidget constructed the widget
  nextWidget,     \* the next widget to be constructed
  classList,      \* the class names added to the widget by widget.addClass
  disk,           \* the files held by the contents service
  sent,           \* per request id: the request sent to the contents service
                  \* and its result: "none", "pending", "ok" or "rejected"
  requests,       \* the ids of the requests not yet answered
  nextReq,        \* the next request id
  finished,       \* per request id: the models emitted by `finished` for it
  opened,         \* per handler and path: what the latest open returned
  mHandlers,      \* DocumentManager._handlers
  currentWidget,  \* DocumentManager._currentWidget
  currentHandler, \* DocumentManager._currentHandler
  defaultHandler, \* DocumentManager._defaultHandler
  activeProperty, \* per handler: the own property `activeWidget` that
                  \* DocumentManager._open assigns on the handler object
  extensions,     \* per handler: what its getter fileExtensions returns
  jobs,           \* the job queue: the promise continuations ready to run
  draining,       \* the task has ended and its jobs are being run
  steps           \* the number of calls, events and answers so far

vars == <<widgets, activeWidget, modelProperty, titleText, className, editor,
          listeners, disposed, owner, nextWidget, classList, disk, sent, requests,
          nextReq, finished, opened, mHandlers, currentWidget, currentHandler,
          defaultHandler, activeProperty, extensions, jobs, draining, steps>>

handlerVars == <<widgets, activeWidget>>
widgetVars == <<modelProperty, titleText, className, editor, listeners, disposed,
                owner, nextWidget, classList>>
serviceVars == <<disk, sent, requests, nextReq>>
managerVars == <<mHandlers, currentWidget, currentHandler, defaultHandler,
                 activeProperty, extensions>>

ReqIds == 1..MaxLog

Created == 1..(nextWidget - 1)

\* The entry of the log `sent` for an id no request has been sent under.
NoRequest == [kind |-> "none", h |-> NoHandler, w |-> Null, model |-> NoModel,
              newPath |-> <<>>, result |-> "none"]

\* The extensions of the model: '.t' and '.m'.
ExtT == <<".", "t">>
ExtM == <<".", "m">>

\* The getter fileExtensions of AbstractFileHandler, which FileHandler
\* inherits: no extension is declared.
fileExtensions(h) == <<>>

\* The job queue holds what was chained with `then` to a promise that is
\* settled: kind says which continuation, id is the request whose answer it
\* continues (0 for the continuation of getState, which has sent no request
\* yet), contents is what the promise resolved with.
Job(kind, id, h, w, model, contents) ==
  [kind |-> kind, id |-> id, h |-> h, w |-> w, model |-> model, contents |-> contents]

\* The continuations of getState that have not sent their save request yet.
Unsent(q) == Cardinality({i \in 1..Len(q) : q[i].kind = "getState"})

\* The handlers, the contents service and the document manager after
\* construction.
Constructed ==
  /\ widgets = [h \in Handlers |-> <<>>]
  /\ activeWidget = [h \in Handlers |-> Null]
  /\ modelProperty = [w \in Widgets |-> NoModel]
  /\ titleText = [w \in Widgets |-> <<>>]
  /\ className = [w \in Widgets |-> <<>>]
  /\ editor = [w \in Widgets |-> EmptyDoc]
  /\ listeners = [w \in Widgets |-> 0]
  /\ disposed = [w \in Widgets |-> FALSE]
  /\ owner = [w \in Widgets |-> NoHandler]
  /\ nextWidget = 1
  /\ classList = [w \in Widgets |-> {}]
  /\ disk = [p \in Paths |-> IF p = PathDA THEN "x" ELSE Absent]
  /\ requests = {}
  /\ nextReq = 1
  /\ sent = [i \in ReqIds |-> NoRequest]
  /\ finished = [i \in ReqIds |-> <<>>]
  /\ opened = [h \in Handlers |-> [p \in OpenPaths |-> [w |-> Null, renamed |-> FALSE]]]
  /\ mHandlers = <<>>
  /\ currentWidget = Null
  /\ currentHandler = NoHandler
  /\ defaultHandler = NoHandler
  /\ activeProperty = [h \in Handlers |-> Null]
  /\ jobs = <<>>
  /\ draining = FALSE
  /\ steps = 0

Init ==
  /\ Constructed
  /\ extensions = [h \in Handlers |-> fileExtensions(h)]

(***************************************************************************)
(* AbstractFileHandler: the private helpers.                               *)
(***************************************************************************)
\* A faulty variant of findWidgetByModel: the lookup never finds a widget.
findWidgetByModelNever(ws, mp, path) == Null

\* _findWidgetByModel: arrays.find returns the first widget of _widgets whose
\* bound model has the path, else undefined.
findWidgetByModel(ws, mp, path) ==
  LET I == {i \in 1..Len(ws) : mp[ws[i]].path = path}
  IN IF I = {} THEN Null ELSE ws[CHOOSE i \in I : \A j \in I : i <= j]

\* _resolveWidget: widget || this._activeWidget, undefined unless registered.
resolveWidget(ws, active, widget) ==
  LET w == IF widget # Null THEN widget ELSE active
  IN IF IndexOf(ws, w) = -1 THEN Null ELSE w

\* A faulty variant of getNewPath: the directory of the old path is dropped.
getNewPathNoDir(oldPath, title) == title

\* getNewPath: the directory of the old path followed by the title text.
getNewPath(oldPath, title) ==
  LET dirname == Slice(oldPath, 0, LastIndexOf(oldPath, "/") + 1)
  IN dirname \o title

\* FileHandler.createWidget: the title text of the new widget.
createWidget(model) == Basename(model.path)

\* FileHandler.getState: the widget's text under the path of its model.
getState(text, model) == [path |-> model.path, content |-> text]

\* FileHandler.getContents on a file the service holds.
getContents(path) == [path |-> path, content |-> disk[path]]

(***************************************************************************)
(* close, closeAll and filterMessage change the registry, the active       *)
(* pointer and the widgets' disposed flags.  They are functions of a       *)
(* record gs of these three (and ret, what the call returned), so that     *)
(* closeAll and DocumentManager.closeAll can run several of them in one    *)
(* step.                                                                   *)
(***************************************************************************)
Snapshot == [widgets |-> widgets, active |-> activeWidget, disposed |-> disposed,
             ret |-> "none"]

\* A faulty variant of close: every widget of the handler leaves the registry.
closeDropsAll(gs, h, widget) ==
  LET w == resolveWidget(gs.widgets[h], gs.active[h], widget)
  IN IF w = Null THEN [gs EXCEPT !.ret = "undefined"]
     ELSE [gs EXCEPT !.disposed[w] = TRUE,
                     !.widgets[h] = <<>>,
                     !.active[h] = IF w = @ THEN Null ELSE @,
                     !.ret = "true"]

\* AbstractFileHandler.close.  An unresolved widget ends the call with a bare
\* `return;`, so the call returns undefined.
close(gs, h, widget) ==
  LET w == resolveWidget(gs.widgets[h], gs.active[h], widget)
  IN IF w = Null THEN [gs EXCEPT !.ret = "undefined"]
     ELSE [gs EXCEPT !.disposed[w] = TRUE,
                     !.widgets[h] = Splice1(@, IndexOf(@, w)),
                     !.active[h] = IF w = @ THEN Null ELSE @,
                     !.ret = "true"]

\* A faulty variant of filterMessage: the close-request is let through to the widget.
filterMessageIgnores(gs, h, widget, type) == [gs EXCEPT !.ret = "false"]

\* AbstractFileHandler.filterMessage, the message filter installed on every
\* widget the handler opens.
filterMessage(gs, h, widget, type) ==
  IF type = "close-request" THEN close(gs, h, widget)
  ELSE [gs EXCEPT !.ret = "false"]

\* Widget.close(): a close-request message is sent to the widget and passes
\* through its message filters first.  dispose() removes the filters.
widgetClose(gs, w) ==
  IF gs.disposed[w] THEN gs ELSE filterMessage(gs, owner[w], w, "close-request")

\* The loop of closeAll: `for (let w of this._widgets) w.close()` walks the
\* live array by index while close splices it.
RECURSIVE closeAllLoop(_, _, _)
closeAllLoop(gs, h, i) ==
  IF i >= Len(gs.widgets[h]) THEN gs
  ELSE closeAllLoop(widgetClose(gs, gs.widgets[h][i + 1]), h, i + 1)

\* AbstractFileHandler.closeAll.
closeAll(gs, h) ==
  [closeAllLoop(gs, h, 0) EXCEPT !.active[h] = Null, !.ret = "none"]

(***************************************************************************)
(* AbstractFileHandler: the public methods.                                *)
(***************************************************************************)
Request(kind, h, w, model, newPath) ==
  [kind |-> kind, h |-> h, w |-> w, model |-> model, newPath |-> newPath,
   result |-> "pending"]

\* A request goes to the contents service; its answer comes in a later step.
\* The log has room for the request and for those of the queued
\* continuations of getState.
Send(r) ==
  /\ nextReq + Unsent(jobs) <= MaxLog
  /\ sent' = [sent EXCEPT ![nextReq] = r]
  /\ requests' = requests \cup {nextReq}
  /\ nextReq' = nextReq + 1
  /\ UNCHANGED disk

\* AbstractFileHandler.open: the widget the call returns.
openReturns(h, model) ==
  LET found == findWidgetByModel(widgets[h], modelProperty, model.path)
  IN IF found = Null THEN nextWidget ELSE found

\* AbstractFileHandler.open: what the call changes.
handlerOpen(h, model) ==
  LET found == findWidgetByModel(widgets[h], modelProperty, model.path)
      w == openReturns(h, model)
  IN /\ found = Null => nextWidget <= MaxWidgets
     /\ IF found = Null
        THEN /\ titleText' = [titleText EXCEPT ![w] = createWidget(model)]
             /\ modelProperty' = [modelProperty EXCEPT ![w] = model]
             /\ widgets' = [widgets EXCEPT ![h] = Append(@, w)]
             /\ owner' = [owner EXCEPT ![w] = h]
             /\ nextWidget' = nextWidget + 1
        ELSE UNCHANGED <<titleText, modelProperty, widgets, owner, nextWidget>>
     /\ Send(Request("open", h, w, model, <<>>))
     /\ opened' = [opened EXCEPT ![h][model.path] = [w |-> w, renamed |-> FALSE]]
     /\ UNCHANGED <<className, editor, listeners, disposed, finished, jobs>>

\* A call of AbstractFileHandler.open.
open(h, model) ==
  /\ handlerOpen(h, model)
  /\ UNCHANGED <<activeWidget, classList, managerVars>>

\* AbstractFileHandler.save: what the call returns.
saveReturns(h, widget) ==
  IF resolveWidget(widgets[h], activeWidget[h], widget) = Null THEN "undefined"
  ELSE "promise"

\* AbstractFileHandler.save.  getState reads the text when save is called
\* and returns a resolved promise; the request is sent by the continuation
\* chained to it, which runs as a job after the call has returned.
save(h, widget) ==
  LET w == resolveWidget(widgets[h], activeWidget[h], widget)
  IN /\ IF w = Null
        THEN UNCHANGED jobs
        ELSE /\ nextReq + Unsent(jobs) <= MaxLog
             /\ jobs' = Append(jobs, Job("getState", 0, h, w, modelProperty[w],
                                          getState(editor[w], modelProperty[w])))
     /\ UNCHANGED <<handlerVars, widgetVars, serviceVars, finished, opened,
                    managerVars>>

\* The continuation of getState in save: manager.save(model.path, contents).
saveSend ==
  /\ jobs # <<>>
  /\ Head(jobs).kind = "getState"
  /\ LET j == Head(jobs)
     IN /\ sent' = [sent EXCEPT ![nextReq] =
                      Request("save", j.h, j.w,
                              [path |-> j.model.path, content |-> j.contents.content],
                              <<>>)]
        /\ requests' = requests \cup {nextReq}
        /\ nextReq' = nextReq + 1
  /\ jobs' = Tail(jobs)
  /\ UNCHANGED <<handlerVars, widgetVars, disk, finished, opened, managerVars>>

\* AbstractFileHandler.revert: what the call returns.
revertReturns(h, widget) ==
  IF resolveWidget(widgets[h], activeWidget[h], widget) = Null THEN "undefined"
  ELSE "promise"

\* AbstractFileHandler.revert.
revert(h, widget) ==
  LET w == resolveWidget(widgets[h], activeWidget[h], widget)
  IN /\ IF w = Null
        THEN UNCHANGED serviceVars
        ELSE Send(Request("revert", h, w, modelProperty[w], <<>>))
     /\ UNCHANGED <<handlerVars, widgetVars, finished, opened, managerVars, jobs>>

\* An attached property p of the widgets once Widget.dispose() has cleared
\* the property data of those in D: a later read gives the property's
\* default value.
clearPropertyData(p, D, default) ==
  [w \in Widgets |-> IF w \in D THEN default ELSE p[w]]

\* widget.dispose() belongs to the widget library, which is not part of the
\* handler's source.  The model and the title of a widget are properties
\* attached to it.  A library whose dispose() clears the attached properties
\* leaves the model of a disposed widget null and hands out a new, empty
\* title for it; one that does not leaves the binding and the title in
\* place.  Either library can be built against: the widgets whose
\* properties are cleared are all those that gs disposes of, or none.
disposeClears(gs) == {{w \in Widgets : gs.disposed[w] /\ ~disposed[w]}, {}}

\* The registry, the active pointers and the disposed flags become those of
\* gs, and the widgets that gs disposes of go through dispose().
Install(gs) ==
  /\ widgets' = gs.widgets
  /\ activeWidget' = gs.active
  /\ disposed' = gs.disposed
  /\ \E D \in disposeClears(gs) :
       /\ modelProperty' = clearPropertyData(modelProperty, D, NoModel)
       /\ titleText' = clearPropertyData(titleText, D, <<>>)
       /\ className' = clearPropertyData(className, D, <<>>)

\* A call of AbstractFileHandler.close.
closeCall(h, widget) ==
  LET gs == close(Snapshot, h, widget)
  IN /\ Install(gs)
     /\ UNCHANGED <<editor, listeners, owner, nextWidget, classList, serviceVars,
                    finished, opened, managerVars, jobs>>

\* A call of AbstractFileHandler.closeAll.
closeAllCall(h) ==
  LET gs == closeAll(Snapshot, h)
  IN /\ Install(gs)
     /\ UNCHANGED <<editor, listeners, owner, nextWidget, classList, serviceVars,
                    finished, opened, managerVars, jobs>>

\* AbstractFileHandler.deactivate.
deactivate(h) ==
  /\ activeWidget' = [activeWidget EXCEPT ![h] = Null]
  /\ UNCHANGED <<widgets, widgetVars, serviceVars, finished, opened, managerVars,
                 jobs>>

(***************************************************************************)
(* Events of the user interface.                                           *)
(***************************************************************************)
\* The widgets that are still part of the user interface.
Alive == {w \in Created : ~disposed[w]}

\* A close-request reaches a widget: the close control of its tab, or
\* widget.close().
closeRequest(w) ==
  LET gs == widgetClose(Snapshot, w)
  IN /\ w \in Alive
     /\ Install(gs)
     /\ UNCHANGED <<editor, listeners, owner, nextWidget, classList, serviceVars,
                    finished, opened, managerVars, jobs>>

\* The title text of a widget changes and title.changed calls
\* AbstractFileHandler.onTitleChanged with args.name = 'text'.
onTitleChanged(w, text) ==
  LET h == owner[w]
      model == modelProperty[w]
      newPath == getNewPath(model.path, text)
  IN /\ w \in Alive
     /\ text # titleText[w]
     /\ titleText' = [titleText EXCEPT ![w] = text]
     /\ IF IndexOf(widgets[h], w) = -1
        THEN UNCHANGED serviceVars
        ELSE Send(Request("rename", h, w, model, newPath))
     /\ UNCHANGED <<handlerVars, modelProperty, className, editor, listeners, disposed,
                    owner, nextWidget, classList, finished, opened, managerVars, jobs>>

\* The user edits the text of a widget: CodeMirror fires 'change'.
edit(w, text) ==
  /\ w \in Alive
  /\ text # editor[w]
  /\ editor' = [editor EXCEPT ![w] = text]
  /\ className' = [className EXCEPT ![w] = FireChange(@, listeners[w])]
  /\ UNCHANGED <<handlerVars, modelProperty, titleText, listeners, disposed, owner,
                 nextWidget, classList, serviceVars, finished, opened, managerVars,
                 jobs>>

\* A faulty variant of activatedEmitted: activated is emitted whenever the
\* target lies in a widget of the handler.
activatedOnEveryFocus(ws, active, t) == IF IndexOf(ws, t) = -1 THEN 0 ELSE 1

\* AbstractFileHandler._onFocus: how many times `activated` is emitted, for a
\* focus event whose target lies in widget t.
activatedEmitted(ws, active, t) ==
  LET widget == IF IndexOf(ws, t) = -1 THEN Null ELSE t
  IN IF widget # Null THEN (IF active = Null THEN 1 ELSE 0) ELSE 0

\* AbstractFileHandler._onFocus of handler h, for a focus event whose target
\* lies in widget t (Null: in no widget): the new active widget.
onFocus(ws, active, t) ==
  LET widget == IF IndexOf(ws, t) = -1 THEN Null ELSE t
  IN IF widget # Null THEN widget ELSE active

\* What a read of a property that an object does not have gives.
Undefined == "undefined"

\* The property `widgets` of a handler, as DocumentManager reads it.
\* AbstractFileHandler keeps its registry in the private field _widgets and
\* neither it nor FileHandler defines a property `widgets`.
widgetsProperty(h) == Undefined

\* DocumentManager._onFocus: the loop over the registered handlers, from the
\* i-th on, for a focus event whose target lies in widget t;
\* ms = [property, currentWidget, currentHandler, threw].
\* arrays.find(h.widgets, ...) reads the length of its first argument: on
\* undefined the listener throws a TypeError and the rest of it does not run.
RECURSIVE managerOnFocus(_, _, _)
managerOnFocus(ms, t, i) ==
  IF i > Len(mHandlers) THEN ms
  ELSE LET h == mHandlers[i]
       IN IF widgetsProperty(h) = Undefined THEN [ms EXCEPT !.threw = TRUE]
          ELSE LET widget == IF IndexOf(widgetsProperty(h), t) = -1 THEN Null ELSE t
               IN IF widget # Null /\ widget = ms.currentWidget
                  THEN managerOnFocus(ms, t, i + 1)
                  ELSE IF widget # Null
                  THEN managerOnFocus([ms EXCEPT !.currentWidget = widget,
                                                 !.currentHandler = h], t, i + 1)
                  ELSE managerOnFocus([ms EXCEPT !.property[h] = Null], t, i + 1)

\* What the manager's listener starts from.
ManagerState == [property |-> activeProperty, currentWidget |-> currentWidget,
                 currentHandler |-> currentHandler, threw |-> FALSE]

\* DocumentManager._onFocus: how the listener ends.
managerOnFocusOutcome(t) ==
  IF managerOnFocus(ManagerState, t, 1).threw THEN "throws" ELSE "returns"

\* A focus event anywhere in the document: the capture-phase listeners of
\* every handler and of the document manager run on it; a listener that
\* throws does not keep the others from running.
focus(t) ==
  LET ms == managerOnFocus(ManagerState, t, 1)
  IN /\ t \in Alive \cup {Null}
     /\ activeWidget' = [h \in Handlers |-> onFocus(widgets[h], activeWidget[h], t)]
     /\ UNCHANGED <<widgets, widgetVars, serviceVars, finished, opened, mHandlers,
                    defaultHandler, extensions, jobs>>
     /\ activeProperty' = ms.property
     /\ currentWidget' = ms.currentWidget
     /\ currentHandler' = ms.currentHandler

(***************************************************************************)
(* The answers of the contents service.  The service settles the promise   *)
(* of a request; what the handler chained to the promise is queued as a    *)
(* job and runs after the jobs queued before it.                           *)
(***************************************************************************)
Answer(id, result) ==
  /\ requests' = requests \ {id}
  /\ sent' = [sent EXCEPT ![id].result = result]
  /\ nextReq' = nextReq

\* manager.get is fulfilled with the contents the service holds: the fetch of
\* open or of revert.
getAnswered(id) ==
  LET r == sent[id]
  IN /\ r.kind \in {"open", "revert"}
     /\ disk[r.model.path] # Absent
     /\ Answer(id, "ok")
     /\ jobs' = Append(jobs, Job(r.kind, id, r.h, r.w, r.model,
                                 getContents(r.model.path)))
     /\ UNCHANGED <<handlerVars, widgetVars, disk, finished, opened, managerVars>>

\* What the promise of save resolves with: the model that the service
\* returned for the contents it was sent.
saveResolvesWith(r) == [path |-> r.model.path, content |-> r.model.content]

\* manager.save is fulfilled: the service holds the text it was sent.
saveAnswered(id) ==
  LET r == sent[id]
  IN /\ r.kind = "save"
     /\ disk' = [disk EXCEPT ![r.model.path] = r.model.content]
     /\ Answer(id, "ok")
     /\ jobs' = Append(jobs, Job("save", id, r.h, r.w, r.model, saveResolvesWith(r)))
     /\ UNCHANGED <<handlerVars, widgetVars, finished, opened, managerVars>>

\* manager.rename is fulfilled: the file has moved.
renameAnswered(id) ==
  LET r == sent[id]
  IN /\ r.kind = "rename"
     /\ disk[r.model.path] # Absent
     /\ disk[r.newPath] = Absent
     /\ disk' = [disk EXCEPT ![r.newPath] = disk[r.model.path],
                             ![r.model.path] = Absent]
     /\ Answer(id, "ok")
     /\ jobs' = Append(jobs, Job("rename", id, r.h, r.w, r.model,
                                 [path |-> r.newPath, content |-> NoContent]))
     /\ UNCHANGED <<handlerVars, widgetVars, finished, opened, managerVars>>

\* The promise that save or revert returned, once the service has answered:
\* the continuations are chained with then and no rejection is caught.
settles(result) == IF result = "ok" THEN "resolved" ELSE "rejected"

\* A faulty variant of rejected: the handler sends the request again.
rejectedRetries(id) ==
  /\ nextReq + Unsent(jobs) <= MaxLog
  /\ sent' = [sent EXCEPT ![id].result = "rejected",
                          ![nextReq] = [sent[id] EXCEPT !.result = "pending"]]
  /\ requests' = (requests \ {id}) \cup {nextReq}
  /\ nextReq' = nextReq + 1
  /\ UNCHANGED <<handlerVars, widgetVars, disk, finished, opened, managerVars, jobs>>

\* The service rejects a request: none of the handler's continuations runs.
rejected(id) ==
  /\ Answer(id, "rejected")
  /\ UNCHANGED <<handlerVars, widgetVars, disk, finished, opened, managerVars, jobs>>

(***************************************************************************)
(* The continuations of the handler, run as jobs.                          *)
(***************************************************************************)
\* The job at the head of the queue is of the given kind.
Runs(kind) == jobs # <<>> /\ Head(jobs).kind = kind

\* The editor of a JupyterCodeMirrorWidget after dispose().  The widget class
\* (./widget) keeps its editor: an answer that arrives after close is still
\* applied to the disposed widget.  Were the editor gone, setState would throw
\* and the rest of the continuation would not run.
acceptsState(isDisposed) == TRUE

\* FileHandler.setState on a widget with text, title class name cn and n
\* change listeners: setValue fires the listeners already attached, then one
\* more listener is attached.  CodeMirror makes no change, and fires no
\* 'change', when the empty text replaces an empty document.
setState(text, cn, n, model) ==
  [text |-> model.content,
   className |-> IF text = EmptyDoc /\ model.content = EmptyDoc THEN cn
                 ELSE FireChange(cn, n),
   listeners |-> n + 1]

\* The continuation of getContents in open: setState runs, and the emission
\* of finished is chained to the resolved promise that setState returns.
openFetched ==
  /\ Runs("open")
  /\ LET j == Head(jobs)
         st == setState(editor[j.w], className[j.w], listeners[j.w], j.contents)
     IN IF acceptsState(disposed[j.w])
        THEN /\ editor' = [editor EXCEPT ![j.w] = st.text]
             /\ className' = [className EXCEPT ![j.w] = st.className]
             /\ listeners' = [listeners EXCEPT ![j.w] = st.listeners]
             /\ jobs' = Append(Tail(jobs), [j EXCEPT !.kind = "finished"])
        ELSE /\ jobs' = Tail(jobs)
             /\ UNCHANGED <<editor, className, listeners>>
  /\ UNCHANGED <<handlerVars, modelProperty, titleText, disposed, owner, nextWidget,
                 classList, serviceVars, finished, opened, managerVars>>

\* A faulty variant of finishedArg: finished carries the fetched contents.
finishedArgContents(model, contents) == contents

\* What `finished` is emitted with: the model open was called with.
finishedArg(model, contents) == model

\* The continuation of setState in open: finished is emitted.
openFinished ==
  /\ Runs("finished")
  /\ LET j == Head(jobs)
     IN finished' = [finished EXCEPT ![j.id] = Append(@, finishedArg(j.model, j.contents))]
  /\ jobs' = Tail(jobs)
  /\ UNCHANGED <<handlerVars, widgetVars, serviceVars, opened, managerVars>>

\* A faulty variant of saveDone: the widget is bound to the model that the
\* service returned.
saveDoneRebinds ==
  /\ Runs("save")
  /\ LET j == Head(jobs)
     IN /\ className' = [className EXCEPT ![j.w] = ReplaceDirty(@)]
        /\ modelProperty' = [modelProperty EXCEPT ![j.w] = j.contents]
  /\ jobs' = Tail(jobs)
  /\ UNCHANGED <<handlerVars, titleText, editor, listeners, disposed, owner, nextWidget,
                 classList, serviceVars, finished, opened, managerVars>>

\* The continuation of manager.save: the dirty class is taken out of the
\* title.
saveDone ==
  /\ Runs("save")
  /\ LET j == Head(jobs)
     IN className' = [className EXCEPT ![j.w] = ReplaceDirty(@)]
  /\ jobs' = Tail(jobs)
  /\ UNCHANGED <<handlerVars, modelProperty, titleText, editor, listeners, disposed,
                 owner, nextWidget, classList, serviceVars, finished, opened,
                 managerVars>>

\* The continuation of getContents in revert: setState runs, and the removal
\* of the dirty class is chained to the resolved promise that setState
\* returns.
revertFetched ==
  /\ Runs("revert")
  /\ LET j == Head(jobs)
         st == setState(editor[j.w], className[j.w], listeners[j.w], j.contents)
     IN IF acceptsState(disposed[j.w])
        THEN /\ editor' = [editor EXCEPT ![j.w] = st.text]
             /\ className' = [className EXCEPT ![j.w] = st.className]
             /\ listeners' = [listeners EXCEPT ![j.w] = st.listeners]
             /\ jobs' = Append(Tail(jobs), [j EXCEPT !.kind = "reverted"])
        ELSE /\ jobs' = Tail(jobs)
             /\ UNCHANGED <<editor, className, listeners>>
  /\ UNCHANGED <<handlerVars, modelProperty, titleText, disposed, owner, nextWidget,
                 classList, serviceVars, finished, opened, managerVars>>

\* The continuation of setState in revert: the dirty class is taken out of
\* the title.
revertDone ==
  /\ Runs("reverted")
  /\ LET j == Head(jobs)
     IN className' = [className EXCEPT ![j.w] = ReplaceDirty(@)]
  /\ jobs' = Tail(jobs)
  /\ UNCHANGED <<handlerVars, modelProperty, titleText, editor, listeners, disposed,
                 owner, nextWidget, classList, serviceVars, finished, opened,
                 managerVars>>

\* A faulty variant of renameDone: the answer for a closed widget is dropped.
renameDoneUnlessDisposed ==
  /\ Runs("rename")
  /\ LET j == Head(jobs)
     IN IF disposed[j.w]
        THEN UNCHANGED <<modelProperty, opened>>
        ELSE /\ modelProperty' = [modelProperty EXCEPT ![j.w] = j.contents]
             /\ opened' = [opened EXCEPT
                             ![j.h] = [p \in OpenPaths |-> [@[p] EXCEPT !.renamed = TRUE]]]
  /\ jobs' = Tail(jobs)
  /\ UNCHANGED <<handlerVars, titleText, className, editor, listeners, disposed,
                 owner, nextWidget, classList, serviceVars, finished, managerVars>>

\* The continuation of manager.rename: the widget is bound to the model the
\* service returned.
renameDone ==
  /\ Runs("rename")
  /\ LET j == Head(jobs)
     IN /\ modelProperty' = [modelProperty EXCEPT ![j.w] = j.contents]
        /\ opened' = [opened EXCEPT
                        ![j.h] = [p \in OpenPaths |-> [@[p] EXCEPT !.renamed = TRUE]]]
  /\ jobs' = Tail(jobs)
  /\ UNCHANGED <<handlerVars, titleText, className, editor, listeners, disposed,
                 owner, nextWidget, classList, serviceVars, finished, managerVars>>

(***************************************************************************)
(* DocumentManager.                                                        *)
(***************************************************************************)
\* DocumentManager.register.
register(h) ==
  /\ Len(mHandlers) < MaxRegistered
  /\ mHandlers' = Append(mHandlers, h)
  /\ UNCHANGED <<handlerVars, widgetVars, serviceVars, finished, opened, currentWidget,
                 currentHandler, defaultHandler, activeProperty, extensions, jobs>>

\* DocumentManager.closeAll: how the call ends.  `for (let w of h.widgets)`
\* asks undefined for its iterator: for the first registered handler the
\* call throws a TypeError, before a widget is closed and before the current
\* widget and handler are cleared.  With no handler registered the loop is
\* empty.
managerCloseAllOutcome ==
  IF \E i \in 1..Len(mHandlers) : widgetsProperty(mHandlers[i]) = Undefined
  THEN "throws" ELSE "returns"

\* DocumentManager.closeAll.
managerCloseAll ==
  /\ IF managerCloseAllOutcome = "throws"
     THEN UNCHANGED <<currentWidget, currentHandler>>
     ELSE /\ currentWidget' = Null
          /\ currentHandler' = NoHandler
  /\ UNCHANGED <<handlerVars, widgetVars, serviceVars, finished, opened, mHandlers,
                 defaultHandler, activeProperty, extensions, jobs>>

\* The class name added to document widgets.
DOCUMENT_CLASS == "jp-Document"

\* '.' + path.split('.').pop()
Ext(path) == <<".">> \o SubSeq(path, LastIndexOf(path, ".") + 2, Len(path))

\* A faulty variant of registerDefaultOutcome: the test of the default is missing.
registerDefaultUnguarded == "returns"

\* DocumentManager.registerDefault: what the call does, "throws" or "returns".
registerDefaultOutcome == IF defaultHandler # NoHandler THEN "throws" ELSE "returns"

\* DocumentManager.registerDefault.
registerDefault(h) ==
  /\ IF registerDefaultOutcome = "throws"
     THEN UNCHANGED <<mHandlers, defaultHandler>>
     ELSE /\ Len(mHandlers) < MaxRegistered
          /\ mHandlers' = Append(mHandlers, h)
          /\ defaultHandler' = h
  /\ UNCHANGED <<handlerVars, widgetVars, serviceVars, finished, opened, currentWidget,
                 currentHandler, activeProperty, extensions, jobs>>

\* A faulty variant of dispatch: the default handler is preferred to a match.
dispatchDefaultFirst(model) ==
  LET ext == Ext(model.path)
      handlers == SelectSeq(mHandlers, LAMBDA h : IndexOf(extensions[h], ext) # -1)
  IN IF Len(mHandlers) = 0 THEN [outcome |-> "undefined", h |-> NoHandler]
     ELSE IF defaultHandler # NoHandler THEN [outcome |-> "opened", h |-> defaultHandler]
     ELSE IF Len(handlers) = 0 THEN [outcome |-> "throws", h |-> NoHandler]
     ELSE [outcome |-> "opened", h |-> handlers[1]]

\* DocumentManager.open: the handler the model is opened with, or how the call
\* ends without one: with a bare return, or with a thrown Error.
dispatch(model) ==
  LET ext == Ext(model.path)
      handlers == SelectSeq(mHandlers, LAMBDA h : IndexOf(extensions[h], ext) # -1)
  IN IF Len(mHandlers) = 0 THEN [outcome |-> "undefined", h |-> NoHandler]
     ELSE IF Len(handlers) = 1 THEN [outcome |-> "opened", h |-> handlers[1]]
     ELSE IF Len(handlers) = 0
     THEN IF defaultHandler # NoHandler
          THEN [outcome |-> "opened", h |-> defaultHandler]
          ELSE [outcome |-> "throws", h |-> NoHandler]
     ELSE [outcome |-> "opened", h |-> handlers[1]]

\* The Error thrown by DocumentManager.open: `Could not open file '${path}'`.
CouldNotOpen(path) == [message |-> "Could not open file", path |-> path]
\* No Error is thrown.
NoError == [message |-> "", path |-> <<>>]

\* A faulty variant of openRequestedEmitted: nothing is emitted.
openRequestedSilent(h, model) == <<>>

\* DocumentManager._open: the widgets openRequested is emitted with.
openRequestedEmitted(h, model) == <<openReturns(h, model)>>

\* DocumentManager.open: what the call returns or throws, and what it emits.
managerOpenResult(model) ==
  LET d == dispatch(model)
  IN IF d.outcome = "opened"
     THEN [outcome |-> "returns", widget |-> openReturns(d.h, model), error |-> NoError,
           openRequested |-> openRequestedEmitted(d.h, model)]
     ELSE IF d.outcome = "throws"
     THEN [outcome |-> "throws", widget |-> Null, error |-> CouldNotOpen(model.path),
           openRequested |-> <<>>]
     ELSE [outcome |-> "returns", widget |-> Null, error |-> NoError,
           openRequested |-> <<>>]

\* `handler.activeWidget = w`, as DocumentManager writes it;
\* s = [active: the fields _activeWidget, property: the own properties].
\* AbstractFileHandler defines no accessor `activeWidget`: the assignment
\* makes an own property of the handler object and leaves _activeWidget as
\* it is.
setActiveProperty(s, h, w) == [s EXCEPT !.property[h] = w]

\* DocumentManager.open.
managerOpen(model) ==
  LET d == dispatch(model)
  IN IF d.outcome = "opened"
     THEN LET w == openReturns(d.h, model)
              s == setActiveProperty([active |-> activeWidget,
                                      property |-> activeProperty], d.h, w)
          IN /\ handlerOpen(d.h, model)
             /\ activeWidget' = s.active
             /\ activeProperty' = s.property
             /\ classList' = [classList EXCEPT ![w] = @ \cup {DOCUMENT_CLASS}]
             /\ UNCHANGED <<mHandlers, currentWidget, currentHandler, defaultHandler,
                            extensions>>
     ELSE UNCHANGED <<handlerVars, widgetVars, serviceVars, finished, opened,
                      managerVars, jobs>>

\* DocumentManager._open in the later revision of the manager: the property
\* activeWidget of the handler is set, and then, for every registered handler
\* other than it, `handler.activeWidget = null` is run on the handler itself.
openSetsActive(property, hs, h, w) ==
  IF \E i \in 1..Len(hs) : hs[i] # h THEN [property EXCEPT ![h] = Null]
  ELSE [property EXCEPT ![h] = w]

\* The getter activeHandler of the later revision of the manager: the first
\* registered handler whose property activeWidget is set.
activeHandlerOf(property, hs) ==
  LET I == {i \in 1..Len(hs) : property[hs[i]] # Null}
  IN IF I = {} THEN NoHandler ELSE hs[CHOOSE i \in I : \A j \in I : i <= j]

\* The getter activeWidget of the later revision of the manager.
activeWidgetOf(property, hs) ==
  IF activeHandlerOf(property, hs) = NoHandler THEN Null
  ELSE property[activeHandlerOf(property, hs)]

\* DocumentManager.save.
managerSave ==
  IF currentHandler # NoHandler THEN save(currentHandler, currentWidget)
  ELSE UNCHANGED <<handlerVars, widgetVars, serviceVars, finished, opened, managerVars,
                   jobs>>

\* DocumentManager.revert.
managerRevert ==
  IF currentHandler # NoHandler THEN revert(currentHandler, currentWidget)
  ELSE UNCHANGED <<handlerVars, widgetVars, serviceVars, finished, opened, managerVars,
                   jobs>>

\* DocumentManager.close.
managerClose ==
  LET gs == IF currentHandler # NoHandler
            THEN close(Snapshot, currentHandler, currentWidget)
            ELSE Snapshot
  IN /\ Install(gs)
     /\ currentWidget' = Null
     /\ currentHandler' = NoHandler
     /\ UNCHANGED <<editor, listeners, owner, nextWidget, classList, serviceVars,
                    finished, opened, mHandlers, defaultHandler, activeProperty,
                    extensions, jobs>>

(***************************************************************************)
(* The specification.                                                      *)
(***************************************************************************)
\* A call, an event or an answer of the service is part of a task: it runs
\* when no job is running, and counts as one step of the behaviour.
Tick ==
  /\ steps < MaxSteps
  /\ ~draining
  /\ steps' = steps + 1
  /\ draining' = FALSE

\* A job runs when the calls and events of the task are over, and once the
\* first job has run the queue is emptied before the next task starts.
Run ==
  /\ steps' = steps
  /\ draining' = (jobs' # <<>>)

\* No more than MaxReqs requests are sent in one behaviour.
Capped == nextReq' + Unsent(jobs') <= MaxReqs + 1

Next ==
  \/ \E h \in Handlers, model \in OpenModels : Tick /\ open(h, model) /\ Capped
  \/ \E h \in Handlers, w \in Created \cup {Null} : Tick /\ save(h, w) /\ Capped
  \/ \E h \in Handlers, w \in Created \cup {Null} : Tick /\ revert(h, w) /\ Capped
  \/ \E h \in Handlers, w \in Created \cup {Null} : Tick /\ closeCall(h, w) /\ Capped
  \/ \E h \in Handlers : Tick /\ closeAllCall(h) /\ Capped
  \/ \E h \in Handlers : Tick /\ deactivate(h) /\ Capped
  \/ \E w \in Widgets : Tick /\ closeRequest(w) /\ Capped
  \/ \E w \in Widgets, text \in Titles : Tick /\ onTitleChanged(w, text) /\ Capped
  \/ \E w \in Widgets, text \in Texts : Tick /\ edit(w, text) /\ Capped
  \/ \E t \in Widgets \cup {Null} : Tick /\ focus(t) /\ Capped
  \/ \E r \in requests : Tick /\ getAnswered(r) /\ Capped
  \/ \E r \in requests : Tick /\ saveAnswered(r) /\ Capped
  \/ \E r \in requests : Tick /\ renameAnswered(r) /\ Capped
  \/ \E r \in requests : Tick /\ rejected(r) /\ Capped
  \/ \E h \in Handlers : Tick /\ register(h) /\ Capped
  \/ Tick /\ managerCloseAll /\ Capped
  \/ \E h \in Handlers : Tick /\ registerDefault(h) /\ Capped
  \/ \E model \in OpenModels : Tick /\ managerOpen(model) /\ Capped
  \/ Tick /\ managerSave /\ Capped
  \/ Tick /\ managerRevert /\ Capped
  \/ Tick /\ managerClose /\ Capped
  \/ saveSend /\ Run
  \/ openFetched /\ Run
  \/ openFinished /\ Run
  \/ saveDone /\ Run
  \/ revertFetched /\ Run
  \/ revertDone /\ Run
  \/ renameDone /\ Run

Spec == Init /\ [][Next]_vars

(***************************************************************************)
(* One handler whose widgets are opened, saved and retitled while the      *)
(* service answers in any order; longer behaviours, three titles.          *)
(***************************************************************************)
RenameTick ==
  /\ steps < MaxRenameSteps
  /\ ~draining
  /\ steps' = steps + 1
  /\ draining' = FALSE

RenameNext ==
  \/ \E model \in OpenModels : RenameTick /\ open("h1", model)
  \/ \E w \in Created : RenameTick /\ save("h1", w)
  \/ \E w \in Widgets, text \in RenameTitles : RenameTick /\ onTitleChanged(w, text)
  \/ \E r \in requests : RenameTick /\ getAnswered(r)
  \/ \E r \in requests : RenameTick /\ saveAnswered(r)
  \/ \E r \in requests : RenameTick /\ renameAnswered(r)
  \/ \E r \in requests : RenameTick /\ rejected(r)
  \/ saveSend /\ Run
  \/ openFetched /\ Run
  \/ openFinished /\ Run
  \/ saveDone /\ Run
  \/ renameDone /\ Run

RenameSpec == Init /\ [][RenameNext]_vars

(***************************************************************************)
(* The dispatch of DocumentManager.open as a function of what the getters  *)
(* fileExtensions of the registered handlers return: the behaviours start  *)
(* with handlers of classes that override the getter.                      *)
(***************************************************************************)
\* The values of the getter fileExtensions of a handler that overrides it.
ExtensionLists == {<<>>, <<ExtT>>, <<ExtM>>, <<ExtT, ExtM>>}

DispatchInit ==
  /\ Constructed
  /\ extensions \in [Handlers -> ExtensionLists]

DispatchNext ==
  \/ \E h \in Handlers : Tick /\ register(h) /\ Capped
  \/ \E h \in Handlers : Tick /\ registerDefault(h) /\ Capped
  \/ \E model \in OpenModels : Tick /\ managerOpen(model) /\ Capped

DispatchSpec == DispatchInit /\ [][DispatchNext]_vars

(***************************************************************************)
(* Vocabulary of the properties.                                           *)
(***************************************************************************)
\* w is in the registry of the handler that opened it.
Registered(w) == w \in Created /\ IndexOf(widgets[owner[w]], w) # -1

\* setState has run on w: its editor has a change listener.
Populated(w) == listeners[w] >= 1

\* The number of dirty markers in a title class name.
DirtyCount(cn) == Cardinality({i \in 1..Len(cn) : cn[i] = DIRTY_CLASS})

\* The step is a call of open on handler h with a model of path p: every
\* call of open sends its fetch under the next request id.
OpenStep(h, p) ==
  /\ nextReq \in ReqIds
  /\ nextReq' = nextReq + 1
  /\ sent'[nextReq].kind = "open"
  /\ sent'[nextReq].h = h
  /\ sent'[nextReq].model.path = p

\* The step is an edit of the text of w by the user.
EditStep(w) == \E text \in Texts : edit(w, text)

\* The step is the successful completion of a save or revert of w: the last
\* continuation of the call runs.
SaveOrRevertOk(w) ==
  /\ jobs # <<>>
  /\ Head(jobs).w = w
  /\ Head(jobs).kind \in {"save", "reverted"}
  /\ jobs' = Tail(jobs)

\* ws without its element w.
Without(ws, w) == SelectSeq(ws, LAMBDA v : v # w)

(***************************************************************************)
(* C1.  As claimed: two calls of open on one handler with models of the    *)
(* same path, with no close of the returned widget in between, return the  *)
(* identical widget, and the second call adds no entry to the registry.    *)
(* This fails when the answer to a rename rebinds the widget in between.   *)
(***************************************************************************)
C1_ReopenSameWidget ==
  [][\A h \in Handlers, p \in OpenPaths :
       (/\ OpenStep(h, p)
        /\ opened[h][p].w # Null
        /\ ~disposed[opened[h][p].w])
       => (/\ sent'[nextReq].w = opened[h][p].w
           /\ widgets'[h] = widgets[h])]_vars

\* C1, amended: two calls of open on one handler with models of the same
\* path, with no close of the returned widget and no successful rename
\* answer for a widget of that handler in between, return the identical
\* widget, and the second call adds no entry to the registry.
C1_ReopenSameWidgetNoRename ==
  [][\A h \in Handlers, p \in OpenPaths :
       (/\ OpenStep(h, p)
        /\ opened[h][p].w # Null
        /\ ~disposed[opened[h][p].w]
        /\ ~opened[h][p].renamed)
       => (/\ sent'[nextReq].w = opened[h][p].w
           /\ widgets'[h] = widgets[h])]_vars

\* C1, reached: two calls of open for one path, with no rename answered in
\* between, have returned the same widget and the registry holds it once.
C1_Witness ==
  \E i, j \in ReqIds :
    /\ i < j
    /\ sent[i].kind = "open" /\ sent[j].kind = "open"
    /\ sent[i].h = sent[j].h
    /\ sent[i].model.path = sent[j].model.path
    /\ sent[i].w = sent[j].w
    /\ ~opened[sent[j].h][sent[j].model.path].renamed
    /\ Len(widgets[sent[j].h]) = 1

(***************************************************************************)
(* C2.  In every reachable state no two widgets of one registry are bound  *)
(* to the same path.                                                       *)
(***************************************************************************)
C2_OneWidgetPerPath ==
  \A h \in Handlers : \A i, j \in 1..Len(widgets[h]) :
    i # j => modelProperty[widgets[h][i]].path # modelProperty[widgets[h][j]].path

(***************************************************************************)
(* C3.  A call of open on a path that has a registered widget sends no     *)
(* fetch, and leaves the widget's text, its dirty marker, its model        *)
(* binding, the registry and the finished events as they are.              *)
(***************************************************************************)
C3_ReopenChangesNothing ==
  [][\A h \in Handlers, model \in OpenModels :
       (/\ findWidgetByModel(widgets[h], modelProperty, model.path) # Null
        /\ open(h, model))
       => UNCHANGED <<sent, requests, nextReq, editor, className, modelProperty,
                      finished, widgets>>]_vars

(***************************************************************************)
(* C4.  finished is emitted for an open call only after its fetch has      *)
(* succeeded and setState has put the fetched text into the widget, in a   *)
(* step after the call returned the widget; it is emitted with the model   *)
(* handed to open, never twice for one call, and once the jobs have run    *)
(* it has been emitted for exactly the open calls whose fetch succeeded.   *)
(***************************************************************************)
C4_FinishedOncePerOpen ==
  [][/\ \A id \in ReqIds :
          finished'[id] # finished[id] =>
            (/\ sent[id].kind = "open"
             /\ sent[id].result = "ok"
             /\ finished[id] = <<>>
             /\ finished'[id] = <<sent[id].model>>
             /\ sent[id].w \in Created
             /\ listeners[sent[id].w] >= 1
             /\ Runs("finished") /\ Head(jobs).id = id)
     /\ openFetched =>
          (/\ editor'[Head(jobs).w] = Head(jobs).contents.content
           /\ finished' = finished
           /\ jobs' = Append(Tail(jobs), [Head(jobs) EXCEPT !.kind = "finished"]))
     /\ \A i \in 1..Len(jobs') :
          jobs'[i].kind = "finished" => finished'[jobs'[i].id] = <<>>
     /\ jobs' = <<>> =>
          \A id \in ReqIds :
            (sent'[id].kind = "open" /\ sent'[id].result = "ok")
              <=> Len(finished'[id]) = 1]_vars

\* C4, reached: the fetch of an open call has succeeded, finished was emitted
\* for it with the model of the call, and the widget holds the fetched text.
C4_Witness ==
  \E id \in ReqIds :
    /\ sent[id].kind = "open"
    /\ sent[id].result = "ok"
    /\ finished[id] = <<sent[id].model>>
    /\ editor[sent[id].w] = "x"

(***************************************************************************)
(* C5.  For a populated registered widget, an edit leaves exactly one      *)
(* dirty marker in the title class name, and the successful completion of  *)
(* a save or of a revert leaves none.                                      *)
(***************************************************************************)
C5_DirtyMarker ==
  [][\A w \in Widgets :
       (Registered(w) /\ Populated(w)) =>
         /\ EditStep(w) => DirtyCount(className'[w]) = 1
         /\ SaveOrRevertOk(w) => DirtyCount(className'[w]) = 0]_vars

\* C5, reached: an edited text has been saved and the widget carries no
\* dirty marker.
C5_Witness ==
  \E id \in ReqIds :
    /\ sent[id].kind = "save"
    /\ sent[id].result = "ok"
    /\ sent[id].model.content = "y"
    /\ Registered(sent[id].w)
    /\ Populated(sent[id].w)
    /\ editor[sent[id].w] = "y"
    /\ DirtyCount(className[sent[id].w]) = 0

(***************************************************************************)
(* C6.  Every step that takes the dirty marker of a widget away is the     *)
(* successful completion of a save or revert of that widget, and every     *)
(* step that sets it is an edit of that widget.                            *)
(***************************************************************************)
C6_DirtyTransitions ==
  [][\A w \in Widgets :
       /\ (IsDirty(className[w]) /\ ~IsDirty(className'[w])) => SaveOrRevertOk(w)
       /\ (~IsDirty(className[w]) /\ IsDirty(className'[w])) => EditStep(w)]_vars

\* The step disposes of widget w.
Disposes(w) == ~disposed[w] /\ disposed'[w]

\* The step clears the attached properties of widget w: its binding and
\* its title.
Clears(w) ==
  /\ modelProperty'[w] = NoModel
  /\ titleText'[w] = <<>>
  /\ className'[w] = <<>>

\* The step leaves the attached properties of widget w as they are.
Keeps(w) ==
  /\ modelProperty'[w] = modelProperty[w]
  /\ titleText'[w] = titleText[w]
  /\ className'[w] = className[w]

(***************************************************************************)
(* C7.  close on a registered widget disposes it, takes exactly that       *)
(* widget out of the registry, clears the active pointer if and only if    *)
(* it referenced the widget, changes no other widget, no binding, title   *)
(* or dirty marker of another widget and no text, and returns true.  The   *)
(* binding and the title of the closed widget are as they were, or         *)
(* cleared by dispose().                                                   *)
(***************************************************************************)
C7_CloseFrame ==
  [][\A h \in Handlers, x \in Widgets \cup {Null} :
       LET w == IF x # Null THEN x ELSE activeWidget[h]
       IN (/\ w # Null
           /\ IndexOf(widgets[h], w) # -1
           /\ closeCall(h, x))
          => (/\ close(Snapshot, h, x).ret = "true"
              /\ disposed'[w]
              /\ \A v \in Widgets \ {w} : disposed'[v] = disposed[v]
              /\ widgets'[h] = Without(widgets[h], w)
              /\ Len(widgets'[h]) = Len(widgets[h]) - 1
              /\ \A g \in Handlers \ {h} :
                   widgets'[g] = widgets[g] /\ activeWidget'[g] = activeWidget[g]
              /\ activeWidget'[h] = IF activeWidget[h] = w THEN Null
                                    ELSE activeWidget[h]
              /\ \A v \in Widgets \ {w} : Keeps(v)
              /\ Keeps(w) \/ Clears(w)
              /\ UNCHANGED editor)]_vars

\* C7, reached: a widget has been closed while another widget of its handler
\* was the active one, and that widget is still registered and active.
C7_Witness ==
  \E w, v \in Created :
    /\ w # v
    /\ owner[w] = owner[v]
    /\ disposed[w]
    /\ widgets[owner[v]] = <<v>>
    /\ activeWidget[owner[v]] = v

(***************************************************************************)
(* C8.  When the target cannot be resolved, close returns false, save and  *)
(* revert return no result, and the call sends no request, queues no       *)
(* continuation, disposes no widget and changes no registry, binding,      *)
(* dirty marker or active pointer.                                         *)
(***************************************************************************)
C8_UnresolvedIsNoOp ==
  [][\A h \in Handlers, x \in Created \cup {Null} :
       resolveWidget(widgets[h], activeWidget[h], x) = Null =>
         /\ closeCall(h, x) =>
              (/\ close(Snapshot, h, x).ret = "false"
               /\ UNCHANGED <<handlerVars, widgetVars, serviceVars, jobs>>)
         /\ save(h, x) =>
              (/\ saveReturns(h, x) = "undefined"
               /\ UNCHANGED <<handlerVars, widgetVars, serviceVars, jobs>>)
         /\ revert(h, x) =>
              (/\ revertReturns(h, x) = "undefined"
               /\ UNCHANGED <<handlerVars, widgetVars, serviceVars, jobs>>)]_vars

(***************************************************************************)
(* C9.  After closeAll of a handler, and after closeAll of the document    *)
(* manager, every widget that was registered with the handler (with the    *)
(* registered handlers) is disposed, the registries are empty and the      *)
(* active and current pointers are cleared.                                *)
(***************************************************************************)
C9_CloseAllClosesAll ==
  [][/\ \A h \in Handlers :
          closeAllCall(h) =>
            (/\ widgets'[h] = <<>>
             /\ activeWidget'[h] = Null
             /\ \A w \in Range(widgets[h]) : disposed'[w])
     /\ managerCloseAll =>
          (/\ \A i \in 1..Len(mHandlers) :
                /\ widgets'[mHandlers[i]] = <<>>
                /\ activeWidget'[mHandlers[i]] = Null
                /\ \A w \in Range(widgets[mHandlers[i]]) : disposed'[w]
           /\ currentWidget' = Null
           /\ currentHandler' = NoHandler)]_vars

(***************************************************************************)
(* C10.  A close-request that reaches a registered widget makes the        *)
(* handler that opened it close it: the widget is disposed and leaves the  *)
(* registry.  In every reachable state no widget of a registry is          *)
(* disposed.                                                               *)
(***************************************************************************)
C10_CloseRequestIsClose ==
  [][/\ \A w \in Widgets :
          (Registered(w) /\ closeRequest(w)) =>
            (/\ disposed'[w]
             /\ widgets'[owner[w]] = Without(widgets[owner[w]], w)
             /\ \A h \in Handlers : IndexOf(widgets'[h], w) = -1)
     /\ \A h \in Handlers : \A w \in Range(widgets'[h]) : ~disposed'[w]]_vars

\* C10, reached: a close-request has closed one widget of two; the other is
\* still registered.
C10_Witness ==
  \E w, v \in Created :
    /\ w # v
    /\ disposed[w]
    /\ ~disposed[v]
    /\ \A h \in Handlers : IndexOf(widgets[h], w) = -1
    /\ Registered(v)

(***************************************************************************)
(* C11.  A change of the title text of a registered widget bound to path   *)
(* P, to the text T, sends exactly one request to the contents service: a  *)
(* rename of P to the directory of P followed by T, and leaves the binding *)
(* as it is.  The binding of a widget that the step does not dispose of   *)
(* changes only in the continuation of a rename of that widget that was    *)
(* answered with success, and it is then the model the service returned,   *)
(* whose path is the new path of the request.  A step that disposes of a   *)
(* widget leaves its binding or clears it.                                 *)
(***************************************************************************)
C11_TitleChangeRenames ==
  [][/\ \A w \in Widgets, T \in Titles :
          (Registered(w) /\ onTitleChanged(w, T)) =>
            LET P == modelProperty[w].path
                r == sent'[nextReq]
            IN /\ nextReq' = nextReq + 1
               /\ requests' = requests \cup {nextReq}
               /\ \A id \in ReqIds \ {nextReq} : sent'[id] = sent[id]
               /\ r.kind = "rename" /\ r.w = w /\ r.result = "pending"
               /\ r.model.path = P
               /\ \E k \in 0..Len(P) :
                    /\ k > 0 => P[k] = "/"
                    /\ \A i \in (k + 1)..Len(P) : P[i] # "/"
                    /\ r.newPath = SubSeq(P, 1, k) \o T
               /\ modelProperty' = modelProperty
     /\ \A w \in Created :
          modelProperty'[w] # modelProperty[w] =>
            \/ /\ Runs("rename")
               /\ sent[Head(jobs).id].kind = "rename"
               /\ sent[Head(jobs).id].w = w
               /\ sent[Head(jobs).id].result = "ok"
               /\ modelProperty'[w] = Head(jobs).contents
               /\ modelProperty'[w].path = sent[Head(jobs).id].newPath
            \/ Disposes(w) /\ modelProperty'[w] = NoModel]_vars

\* C11, reached: the title of a widget opened on d/a.t was changed to b.m, the
\* rename of d/a.t to d/b.m was answered with success, and the widget is
\* bound to d/b.m.
C11_Witness ==
  \E id \in ReqIds :
    /\ sent[id].kind = "rename"
    /\ sent[id].result = "ok"
    /\ sent[id].model.path = PathDA
    /\ sent[id].newPath = PathDB
    /\ Registered(sent[id].w)
    /\ titleText[sent[id].w] = Basename(PathDB)
    /\ modelProperty[sent[id].w].path = PathDB

\* Handler h declares the extension of path p: its getter fileExtensions
\* returns a list that holds the text of p from its last dot on (a dot
\* followed by the whole of p if p has no dot).
Declares(h, p) ==
  \E k \in 0..Len(p) :
    /\ k > 0 => p[k] = "."
    /\ \A i \in (k + 1)..Len(p) : p[i] # "."
    /\ (k = 0 => \A i \in 1..Len(p) : p[i] # ".")
    /\ \E j \in 1..Len(extensions[h]) :
         extensions[h][j] = <<".">> \o SubSeq(p, k + 1, Len(p))

\* The positions, in registration order, of the handlers that declare the
\* extension of p.
Matches(p) == {i \in 1..Len(mHandlers) : Declares(mHandlers[i], p)}

\* The least element of a non-empty set of numbers.
Least(S) == CHOOSE i \in S : \A j \in S : i <= j

(***************************************************************************)
(* C12.  DocumentManager.open hands the model to the first registered      *)
(* handler, in registration order, that declares the extension of the      *)
(* model's path, whether or not a default handler is registered; if no     *)
(* registered handler declares it and a default handler is registered, to  *)
(* the default handler.  In both cases exactly one handler receives the    *)
(* open call, once.                                                        *)
(***************************************************************************)
C12_DispatchByExtension ==
  [][\A model \in OpenModels :
       managerOpen(model) =>
         LET p == model.path
         IN /\ Matches(p) # {} =>
                 \A h \in Handlers :
                   OpenStep(h, p) <=> h = mHandlers[Least(Matches(p))]
            /\ (Matches(p) = {} /\ defaultHandler # NoHandler) =>
                 \A h \in Handlers : OpenStep(h, p) <=> h = defaultHandler
            /\ nextReq' <= nextReq + 1]_vars

\* C12, reached: h1 is the default handler and declares '.t', h2 is
\* registered and is the only handler that declares '.m', and the document
\* manager has opened d/b.m with h2.
C12_Witness ==
  \E id \in ReqIds :
    /\ defaultHandler = "h1"
    /\ "h2" \in Range(mHandlers)
    /\ sent[id].kind = "open"
    /\ sent[id].model.path = PathDB
    /\ sent[id].h = "h2"
    /\ extensions["h1"] = <<ExtT>>
    /\ extensions["h2"] = <<ExtM>>
    /\ widgets["h2"] = <<sent[id].w>>
    /\ DOCUMENT_CLASS \in classList[sent[id].w]
    /\ widgets["h1"] = <<>>

(***************************************************************************)
(* C13.  When no registered handler declares the extension of the path     *)
(* and no default handler is registered, also when no handler is           *)
(* registered at all, DocumentManager.open throws an error that names the  *)
(* path, opens no widget, sends no request and emits no openRequested.     *)
(***************************************************************************)
C13_NoHandlerThrows ==
  [][\A model \in OpenModels :
       (/\ Matches(model.path) = {}
        /\ defaultHandler = NoHandler
        /\ managerOpen(model))
       => (/\ managerOpenResult(model).outcome = "throws"
           /\ managerOpenResult(model).error = CouldNotOpen(model.path)
           /\ managerOpenResult(model).openRequested = <<>>
           /\ UNCHANGED <<handlerVars, widgetVars, serviceVars>>)]_vars

(***************************************************************************)
(* C14.  registerDefault with no default handler registered appends the    *)
(* handler to the list of handlers and makes it the default; with a        *)
(* default handler registered it throws and leaves the list and the        *)
(* default as they are.  A default handler, once registered, stays the     *)
(* default, and it is one of the registered handlers.                      *)
(***************************************************************************)
C14_OneDefaultHandler ==
  [][/\ \A h \in Handlers :
          registerDefault(h) =>
            IF defaultHandler # NoHandler
            THEN /\ registerDefaultOutcome = "throws"
                 /\ UNCHANGED <<mHandlers, defaultHandler>>
            ELSE /\ registerDefaultOutcome = "returns"
                 /\ mHandlers' = mHandlers \o <<h>>
                 /\ defaultHandler' = h
     /\ defaultHandler # NoHandler => defaultHandler' = defaultHandler
     /\ defaultHandler' # NoHandler => defaultHandler' \in Range(mHandlers')]_vars

\* C14, reached: h2 was registered as the default handler after h1 had been
\* registered.
C14_Witness ==
  /\ mHandlers = <<"h1", "h2">>
  /\ defaultHandler = "h2"

(***************************************************************************)
(* C15.  A call of DocumentManager.open that dispatches to a handler emits *)
(* openRequested once, with the widget that the handler's open returned    *)
(* and that the call returns, and the widget has the document class when   *)
(* the call returns.                                                       *)
(***************************************************************************)
C15_OpenRequestedOnce ==
  [][\A model \in OpenModels :
       (/\ Matches(model.path) # {} \/ (mHandlers # <<>> /\ defaultHandler # NoHandler)
        /\ managerOpen(model))
       => LET w == sent'[nextReq].w
              r == managerOpenResult(model)
          IN /\ r.outcome = "returns"
             /\ r.widget = w
             /\ r.openRequested = <<w>>
             /\ IndexOf(widgets'[owner'[w]], w) # -1
             /\ DOCUMENT_CLASS \in classList'[w]]_vars

\* C15, reached: the document manager has opened d/a.t with its default
\* handler, a handler that declares no extension; the widget is registered
\* with the handler and has the document class.
C15_Witness ==
  \E id \in ReqIds :
    /\ sent[id].kind = "open"
    /\ sent[id].model.path = PathDA
    /\ Registered(sent[id].w)
    /\ classList[sent[id].w] = {DOCUMENT_CLASS}
    /\ sent[id].h = defaultHandler
    /\ extensions[sent[id].h] = <<>>

(***************************************************************************)
(* C16.  After a focus event whose target lies in a registered widget W    *)
(* of a handler that is registered with the document manager, the active   *)
(* widget of that handler is W, and the current widget and current handler *)
(* of the document manager are W and that handler.                         *)
(***************************************************************************)
C16_FocusSetsActiveAndCurrent ==
  [][\A W \in Widgets :
       (Registered(W) /\ owner[W] \in Range(mHandlers) /\ focus(W)) =>
         /\ activeWidget'[owner[W]] = W
         /\ currentWidget' = W
         /\ currentHandler' = owner[W]]_vars

(***************************************************************************)
(* C17.  On a focus event a handler emits activated once if the event      *)
(* takes it from no active widget to an active widget, and not at all      *)
(* otherwise: not when the focus moves between two of its widgets, and     *)
(* not when the target lies in none of its widgets.  deactivate, and every *)
(* step that disposes the active widget, leave the handler without an      *)
(* active widget, so that the next focus into one of its widgets emits     *)
(* activated again.                                                        *)
(***************************************************************************)
C17_ActivatedOnFirstFocus ==
  [][/\ \A t \in Widgets \cup {Null} :
          (UNCHANGED <<requests, widgets>> /\ focus(t)) =>
            \A h \in Handlers :
              LET n == activatedEmitted(widgets[h], activeWidget[h], t)
              IN /\ (activeWidget[h] = Null /\ activeWidget'[h] # Null) => n = 1
                 /\ ~(activeWidget[h] = Null /\ activeWidget'[h] # Null) => n = 0
                 /\ (activeWidget[h] # Null /\ IndexOf(widgets[h], t) # -1) => n = 0
                 /\ IndexOf(widgets[h], t) = -1 => n = 0
     /\ \A h \in Handlers :
          /\ activeWidget'[h] # Null => ~deactivate(h)
          /\ (activeWidget[h] # Null /\ disposed'[activeWidget[h]])
               => activeWidget'[h] = Null]_vars

\* C17, reached: the active widget of a handler was closed and the focus
\* has then moved into another widget of the handler, which is active now.
C17_Witness ==
  \E h \in Handlers :
    /\ Len(widgets[h]) = 1
    /\ activeWidget[h] = widgets[h][1]
    /\ \E v \in Created : owner[v] = h /\ disposed[v]

(***************************************************************************)
(* C18.  In every reachable state the active widget of a handler, if set,  *)
(* is in the registry of that handler: the one the handler keeps and the   *)
(* one the document manager has set on it; and the current widget of the   *)
(* document manager, if set, is in the registry of the current handler.    *)
(***************************************************************************)
C18_PointersAreRegistered ==
  /\ \A h \in Handlers :
       /\ activeWidget[h] # Null => IndexOf(widgets[h], activeWidget[h]) # -1
       /\ activeProperty[h] # Null => IndexOf(widgets[h], activeProperty[h]) # -1
  /\ currentWidget # Null =>
       /\ currentHandler # NoHandler
       /\ IndexOf(widgets[currentHandler], currentWidget) # -1

\* W is the last-focused widget of the document manager: it was opened
\* through the manager by a handler registered with it, the focus has moved
\* into it since, and no other handler has an active widget.
LastFocused(W) ==
  /\ Registered(W)
  /\ owner[W] \in Range(mHandlers)
  /\ activeProperty[owner[W]] = W
  /\ activeWidget[owner[W]] = W
  /\ \A g \in Handlers \ {owner[W]} : activeWidget[g] = Null

(***************************************************************************)
(* C19.  DocumentManager.save, revert and close act on the last-focused    *)
(* widget through the handler that owns it: save reads its text for a save *)
(* request, revert sends a fetch for it, close disposes it and takes it    *)
(* out of its registry.  With no current widget the three calls send       *)
(* nothing, close nothing and leave registries, bindings and dirty markers *)
(* alone.                                                                  *)
(***************************************************************************)
C19_ActOnCurrent ==
  [][/\ \A W \in Widgets :
          LastFocused(W) =>
            /\ managerSave =>
                  /\ Len(jobs') = Len(jobs) + 1
                  /\ jobs'[Len(jobs')].kind = "getState"
                  /\ jobs'[Len(jobs')].w = W
            /\ managerRevert =>
                  /\ nextReq' = nextReq + 1
                  /\ sent'[nextReq].kind = "revert"
                  /\ sent'[nextReq].w = W
            /\ managerClose =>
                  /\ disposed'[W]
                  /\ widgets'[owner[W]] = Without(widgets[owner[W]], W)
                  /\ currentWidget' = Null
     /\ (currentWidget = Null /\ (managerSave \/ managerRevert \/ managerClose)) =>
          UNCHANGED <<handlerVars, widgetVars, serviceVars, finished, opened, jobs>>]_vars

\* A save, a revert or a fetch of w is outstanding: its request is not
\* answered yet, or a continuation of a call on w is still queued.
Outstanding(w) ==
  \/ \E id \in requests : sent[id].w = w /\ sent[id].kind \in {"open", "save", "revert"}
  \/ \E i \in 1..Len(jobs) : jobs[i].w = w

(***************************************************************************)
(* C20.  In every reachable state, a registered widget whose editor has    *)
(* been populated, that is not marked dirty and has no save, revert or     *)
(* fetch outstanding, shows the text that the contents service holds for   *)
(* the path it is bound to.                                                *)
(***************************************************************************)
C20_CleanMeansSaved ==
  \A w \in Widgets :
    (/\ Registered(w)
     /\ Populated(w)
     /\ ~IsDirty(className[w])
     /\ ~Outstanding(w))
    => editor[w] = disk[modelProperty[w].path]

\* The step answers request id, and the widget of the request was closed
\* before.
LateAnswer(id) ==
  /\ id \in requests
  /\ id \notin requests'
  /\ disposed[sent[id].w]

\* The step runs the continuation of the given kind that is at the head of
\* the job queue.
Continues(kind) ==
  /\ Runs(kind)
  /\ steps' = steps
  /\ jobs' # jobs

(***************************************************************************)
(* C21.  Closing a widget cancels none of its requests and none of the     *)
(* continuations queued for it, and an answer that arrives for a closed    *)
(* widget is applied to it: a save that succeeded has stored its text and  *)
(* its continuation takes the dirty class out of the title, the            *)
(* continuation of a rename that succeeded rebinds the widget to the new   *)
(* path.  No such answer and no such continuation changes a registry, an   *)
(* active pointer or a disposed flag.                                      *)
(***************************************************************************)
C21_LateAnswerApplied ==
  [][/\ \A id \in ReqIds :
          LateAnswer(id) =>
            LET r == sent[id]
            IN /\ UNCHANGED <<handlerVars, disposed>>
               /\ sent'[id].result = "ok" =>
                    /\ Len(jobs') = Len(jobs) + 1
                    /\ jobs'[Len(jobs')].id = id
                    /\ jobs'[Len(jobs')].w = r.w
                    /\ jobs'[Len(jobs')].kind = r.kind
               /\ (r.kind = "save" /\ sent'[id].result = "ok") =>
                    disk'[r.model.path] = r.model.content
     /\ \A kind \in {"open", "finished", "save", "revert", "reverted", "rename"} :
          (Continues(kind) /\ disposed[Head(jobs).w]) =>
            LET j == Head(jobs)
            IN /\ UNCHANGED <<handlerVars, disposed>>
               /\ kind = "save" => className'[j.w] = ReplaceDirty(className[j.w])
               /\ kind = "rename" => modelProperty'[j.w].path = sent[j.id].newPath
     /\ (\E w \in Widgets : ~disposed[w] /\ disposed'[w]) =>
          (requests' = requests /\ sent' = sent /\ jobs' = jobs)]_vars

\* C21, reached: widget w was opened on d/a.t, retitled b.m and closed; then
\* d/a.t was opened again, which made a second widget because w was out of
\* the registry; the one rename was answered after that (the record of the
\* second open has seen a rename), and the closed w is bound to d/b.m.
C21_Witness ==
  \E id \in ReqIds, w \in Created :
    /\ sent[id].kind = "rename"
    /\ sent[id].w = w
    /\ sent[id].result = "ok"
    /\ \A other \in ReqIds \ {id} : sent[other].kind # "rename"
    /\ disposed[w]
    /\ modelProperty[w].path = PathDB
    /\ opened[sent[id].h][PathDA].w \notin {w, Null}
    /\ opened[sent[id].h][PathDA].renamed
    /\ widgets[sent[id].h] = <<opened[sent[id].h][PathDA].w>>

\* The step is the rejection of request id by the service.
Rejection(id) ==
  /\ id \in requests
  /\ sent'[id].result = "rejected"

(***************************************************************************)
(* C22.  When the service rejects a save, a revert or a rename, no request *)
(* is sent in its place, then or later, and no continuation is queued; the *)
(* promise that save or revert returned is rejected; and the dirty marker, *)
(* the text, the binding and the registry are as they were before the      *)
(* answer.                                                                 *)
(***************************************************************************)
C22_RejectionChangesNothing ==
  [][\A id \in ReqIds :
       /\ (Rejection(id) /\ sent[id].kind \in {"save", "revert", "rename"}) =>
            /\ nextReq' = nextReq
            /\ requests' = requests \ {id}
            /\ \A other \in ReqIds \ {id} : sent'[other] = sent[other]
            /\ sent[id].kind \in {"save", "revert"} =>
                 settles(sent'[id].result) = "rejected"
            /\ UNCHANGED <<className, editor, modelProperty, widgets, activeWidget,
                           disposed, listeners, titleText, disk, finished, jobs>>
       /\ sent[id].result = "rejected" =>
            (sent'[id] = sent[id] /\ id \notin requests')]_vars

\* C22, reached: the save of an edited widget was rejected; the widget is
\* registered and dirty, holds the edited text and its binding, the service
\* holds the old text, and no request followed the save.
C22_Witness ==
  \E id \in ReqIds :
    LET w == sent[id].w
    IN /\ sent[id].kind = "save"
       /\ sent[id].result = "rejected"
       /\ nextReq = id + 1
       /\ Registered(w)
       /\ IsDirty(className[w])
       /\ editor[w] = "y"
       /\ modelProperty[w].path = PathDA
       /\ disk[PathDA] = "x"

\* The step runs the continuation of the successful answer to request id
\* of the given kind.
Succeeds(id, kind) ==
  /\ Continues(kind)
  /\ Head(jobs).id = id
  /\ sent[id].kind = kind
  /\ sent[id].result = "ok"

(***************************************************************************)
(* C23.  As claimed: once a save has succeeded, the widget is bound to the *)
(* model that the service returned for that save.                          *)
(***************************************************************************)
C23_SaveRebinds ==
  [][\A id \in ReqIds :
       Succeeds(id, "save") =>
         modelProperty'[sent[id].w] = saveResolvesWith(sent[id])]_vars

(***************************************************************************)
(* C23, amended.  A widget is bound to the model that open was called with *)
(* when open creates it, and to the model of the new path when the         *)
(* continuation of a successful rename of it runs; a step that disposes of *)
(* it may clear the binding; no other step changes a binding.  A save that *)
(* succeeds leaves the binding of every widget as it was, when it is       *)
(* answered and when its continuation runs.                                *)
(***************************************************************************)
C23_BindingSetByOpenAndRename ==
  [][/\ \A w \in Widgets :
          modelProperty'[w] # modelProperty[w] =>
            \/ /\ w = nextWidget
               /\ nextWidget' = nextWidget + 1
               /\ nextReq \in ReqIds
               /\ sent'[nextReq].kind = "open"
               /\ sent'[nextReq].w = w
               /\ modelProperty'[w] = sent'[nextReq].model
            \/ \E id \in ReqIds :
                 /\ Succeeds(id, "rename")
                 /\ sent[id].w = w
                 /\ modelProperty'[w].path = sent[id].newPath
            \/ Disposes(w) /\ modelProperty'[w] = NoModel
     /\ \A id \in ReqIds :
          /\ Succeeds(id, "save") => modelProperty' = modelProperty
          /\ (id \in requests /\ sent[id].kind = "save" /\ sent'[id].result = "ok") =>
               modelProperty' = modelProperty
          /\ Succeeds(id, "rename") =>
               modelProperty'[sent[id].w].path = sent[id].newPath]_vars

\* C23, reached: a save of the widget opened on d/a.t has succeeded and the
\* service holds the saved text; the widget is still bound to the model that
\* open was called with.
C23_Witness ==
  \E id \in ReqIds :
    LET w == sent[id].w
    IN /\ sent[id].kind = "save"
       /\ sent[id].result = "ok"
       /\ sent[id].model.content = "x"
       /\ disk[PathDA] = "x"
       /\ Registered(w)
       /\ jobs = <<>>
       /\ modelProperty[w] = [path |-> PathDA, content |-> NoContent]
       /\ saveResolvesWith(sent[id]) # modelProperty[w]

(***************************************************************************)
(* C24.  When a call of DocumentManager.open emits openRequested for a     *)
(* widget, the fetch that the call started has been answered, the widget   *)
(* is populated and finished has been emitted for that open.               *)
(***************************************************************************)
C24_OpenRequestedAfterFinished ==
  [][\A model \in OpenModels :
       (managerOpen(model) /\ managerOpenResult(model).openRequested # <<>>)
       => LET w == managerOpenResult(model).openRequested[1]
          IN /\ nextReq \notin requests'
             /\ listeners'[w] >= 1
             /\ finished'[nextReq] # <<>>]_vars

\* With the properties activeWidget of the handlers `active`, handler h has
\* active widget w, no other registered handler has an active widget, and the
\* manager reports w and h as its active widget and handler.
OnlyActive(active, h, w) ==
  /\ active[h] = w
  /\ \A g \in Range(mHandlers) \ {h} : active[g] = Null
  /\ activeWidgetOf(active, mHandlers) = w
  /\ activeHandlerOf(active, mHandlers) = h

(***************************************************************************)
(* C25.  After a call of DocumentManager.open that dispatches to handler H *)
(* and returns widget W, the active widget of H is W, the one that H acts  *)
(* on by default and the one that the manager reads; no other registered   *)
(* handler has an active widget, and the manager reports W and H as active *)
(* widget and handler; this in either revision of DocumentManager._open.   *)
(***************************************************************************)
C25_OpenLeavesOneActive ==
  [][\A model \in OpenModels :
       (managerOpen(model) /\ dispatch(model).outcome = "opened")
       => LET h == dispatch(model).h
              w == managerOpenResult(model).widget
          IN /\ activeWidget'[h] = w
             /\ OnlyActive(activeProperty', h, w)
             /\ OnlyActive(openSetsActive(activeProperty, mHandlers, h, w), h, w)]_vars

(***************************************************************************)
(* C26.  When the fetch of open is rejected, the widget stays registered,  *)
(* no text is set and no listener attached, and finished is never emitted  *)
(* for that open.  A later open, on the same handler, of the path that the *)
(* registered widget is still bound to creates no widget and returns that  *)
(* widget, and sends a fetch as every open does.                           *)
(***************************************************************************)
C26_RejectedFetchKeepsWidget ==
  [][\A id \in ReqIds :
       /\ (Rejection(id) /\ sent[id].kind = "open") =>
            /\ finished[id] = <<>>
            /\ UNCHANGED <<widgets, activeWidget, editor, listeners, className,
                           modelProperty, disposed, nextWidget, jobs>>
       /\ (sent[id].kind = "open" /\ sent[id].result = "rejected") =>
            /\ finished'[id] = <<>>
            /\ \A h \in Handlers, p \in OpenPaths :
                 (/\ OpenStep(h, p)
                  /\ sent[id].h = h
                  /\ sent[id].model.path = p
                  /\ IndexOf(widgets[h], sent[id].w) # -1
                  /\ modelProperty[sent[id].w].path = p)
                 => (/\ nextWidget' = nextWidget
                     /\ sent'[nextReq].w = sent[id].w
                     /\ nextReq \in requests')]_vars

\* The rename requests sent for widget w.
RenamesOf(w) == {id \in ReqIds : sent[id].kind = "rename" /\ sent[id].w = w}

(***************************************************************************)
(* C27.  In every reachable state, a registered widget for which renames   *)
(* were requested, all of them answered with success and the continuation  *)
(* of each answer run, is bound to the directory of its path followed by   *)
(* its current title text.  (The claim adds that every such rename was     *)
(* requested with a path the service held at the time.)                    *)
(***************************************************************************)
C27_RenamesStayConsistent ==
  \A w \in Created :
    (/\ Registered(w)
     /\ RenamesOf(w) # {}
     /\ \A id \in RenamesOf(w) : sent[id].result = "ok"
     /\ \A i \in 1..Len(jobs) : jobs[i].kind # "rename")
    => modelProperty[w].path = getNewPath(modelProperty[w].path, titleText[w])

====
